---- MODULE Spec2Model ----
(***************************************************************************)
(* Model of the SQL agent of backend/src/agent.py (the LangGraph workflow  *)
(* list_tables -> call_get_schema -> get_schema -> generate_query ->       *)
(* check_query -> run_tools -> validate_answer -> generate_final_answer,   *)
(* driven by SQLAgentGenerator.run) and of the schema graph of             *)
(* backend/src/graph_manager.py.                                           *)
(*                                                                         *)
(* Texts are TLA+ strings; the Python string methods the code applies to   *)
(* them (startswith, in, upper, lower, strip, split) are computed on the   *)
(* characters.                                                             *)
(***************************************************************************)
EXTENDS Integers, Sequences, FiniteSets, TLC

(***************************************************************************)
(* Python str methods                                                      *)
(***************************************************************************)

LowerLetters == "abcdefghijklmnopqrstuvwxyz"
UpperLetters == "ABCDEFGHIJKLMNOPQRSTUVWXYZ"

\* the one-character strings a..z with their capitals, and A..Z with their smalls
to_upper ==
    [c \in {SubSeq(LowerLetters, i, i) : i \in 1..Len(LowerLetters)} |->
        LET i == CHOOSE j \in 1..Len(LowerLetters) : SubSeq(LowerLetters, j, j) = c
        IN  SubSeq(UpperLetters, i, i)]

to_lower ==
    [c \in {SubSeq(UpperLetters, i, i) : i \in 1..Len(UpperLetters)} |->
        LET i == CHOOSE j \in 1..Len(UpperLetters) : SubSeq(UpperLetters, j, j) = c
        IN  SubSeq(LowerLetters, i, i)]

upper_char(c) == IF c \in DOMAIN to_upper THEN to_upper[c] ELSE c

lower_char(c) == IF c \in DOMAIN to_lower THEN to_lower[c] ELSE c

RECURSIVE upper(_)
\* str.upper()
upper(s) == IF s = "" THEN "" ELSE upper_char(Head(s)) \o upper(Tail(s))

RECURSIVE lower(_)
\* str.lower()
lower(s) == IF s = "" THEN "" ELSE lower_char(Head(s)) \o lower(Tail(s))

\* str.startswith(prefix)
startswith(s, prefix) ==
    Len(s) >= Len(prefix) /\ SubSeq(s, 1, Len(prefix)) = prefix

\* sub in s
contains(s, sub) ==
    \E i \in 1..(Len(s) - Len(sub) + 1) : SubSeq(s, i, i + Len(sub) - 1) = sub

is_space(c) == c \in {" ", "\n", "\t", "\r"}

RECURSIVE lstrip(_)
lstrip(s) == IF s # "" /\ is_space(Head(s)) THEN lstrip(Tail(s)) ELSE s

RECURSIVE rstrip(_)
rstrip(s) ==
    IF s # "" /\ is_space(SubSeq(s, Len(s), Len(s)))
    THEN rstrip(SubSeq(s, 1, Len(s) - 1))
    ELSE s

\* str.strip()
strip(s) == rstrip(lstrip(s))

\* s.split(sep)[-1]: what follows the last occurrence of sep, all of s if none
split_last(s, sep) ==
    LET at == {i \in 1..(Len(s) - Len(sep) + 1) : SubSeq(s, i, i + Len(sep) - 1) = sep}
    IN  IF at = {} THEN s
        ELSE LET last == CHOOSE i \in at : \A j \in at : j <= i
             IN  SubSeq(s, last + Len(sep), Len(s))

(***************************************************************************)
(* Messages (langchain HumanMessage, AIMessage, ToolMessage) and tool calls *)
(***************************************************************************)

HumanMessage(content) ==
    [type |-> "human", content |-> content, tool_calls |-> <<>>,
     name |-> "", tool_call_id |-> ""]

AIMessage(content, tool_calls) ==
    [type |-> "ai", content |-> content, tool_calls |-> tool_calls,
     name |-> "", tool_call_id |-> ""]

ToolMessage(content, name, tool_call_id) ==
    [type |-> "tool", content |-> content, tool_calls |-> <<>>,
     name |-> name, tool_call_id |-> tool_call_id]

\* a tool call {"id", "name", "args", "type": "tool_call"}
ToolCall(id, name, args) == [id |-> id, name |-> name, args |-> args]

\* dict.get(key, default)
get(args, key, default) == IF key \in DOMAIN args THEN args[key] ELSE default

\* only AIMessage has the attribute tool_calls
has_tool_calls_attr(msg) == msg.type = "ai"

\* messages[-1], messages[-2]
Last(msgs) == msgs[Len(msgs)]
Last2(msgs) == msgs[Len(msgs) - 1]

(***************************************************************************)
(* Exceptions: a class and str(e). run catches `except Exception`.          *)
(***************************************************************************)

Exc(cls, text) == [cls |-> cls, text |-> text]

NoExc == Exc("", "")

\* the classes raised in a turn, all subclasses of Exception
ExceptionSubclasses ==
    {"AttributeError", "UnboundLocalError", "GraphRecursionError",
     "ClientError", "RuntimeError"}

AttributeErrorToolCalls ==
    Exc("AttributeError", "'ToolMessage' object has no attribute 'tool_calls'")

UnboundLocalUserQuestion ==
    Exc("UnboundLocalError",
        "cannot access local variable 'user_question' where it is not associated with a value")

LLMFailure == Exc("ClientError", "An error occurred when calling the Converse operation")

ToolFailure == Exc("RuntimeError", "vector store search failed")

(***************************************************************************)
(* Tool names                                                              *)
(***************************************************************************)

REASONING_TOOLS ==
    {"sql_db_query_distinct_values", "sql_db_sample_rows",
     "sql_db_find_relevant_tables", "sql_db_schema",
     "sql_db_get_foreign_keys", "sql_db_get_column_info",
     "sql_db_find_table_connections"}

HELPER_TOOLS ==
    {"sql_db_find_relevant_tables", "sql_db_find_table_connections",
     "sql_db_schema", "sql_db_get_foreign_keys", "sql_db_get_column_info"}

SQL_VERBS == {"SELECT", "INSERT", "UPDATE", "DELETE"}

(***************************************************************************)
(* Node functions: each takes the message list of the state and gives the  *)
(* messages to append, or the exception it raises.                         *)
(***************************************************************************)

Ret(msgs) == [exc |-> NoExc, messages |-> msgs, llm_called |-> FALSE]
RetLLM(msgs) == [exc |-> NoExc, messages |-> msgs, llm_called |-> TRUE]
Raise(e) == [exc |-> e, messages |-> <<>>, llm_called |-> FALSE]
RaiseLLM(e) == [exc |-> e, messages |-> <<>>, llm_called |-> TRUE]

\* an LLM outcome: the response message, or the call raising
LLMRaises == [raises |-> TRUE, message |-> AIMessage("", <<>>)]
LLMReturns(msg) == [raises |-> FALSE, message |-> msg]

list_tables_node(state) == Ret(<<>>)

\* response: the outcome of llm_with_tools.invoke
call_get_schema_node(state, response) ==
    IF response.raises THEN RaiseLLM(LLMFailure)
    ELSE RetLLM(<<response.message>>)

generate_query_node(state, response) ==
    IF response.raises THEN RaiseLLM(LLMFailure)
    ELSE RetLLM(<<response.message>>)

\* "LIMIT" not in query.upper()
lacks_limit(query) == ~contains(upper(query), "LIMIT")

\* urandom: the hex text of os.urandom(4)
check_query_node(state, urandom) ==
    LET last_message == Last(state) IN
    IF last_message.tool_calls = <<>>
    THEN LET content == strip(last_message.content) IN
         IF \E kw \in SQL_VERBS : startswith(upper(content), kw)
         THEN Ret(<<AIMessage("", <<ToolCall("manual_sql_fix_" \o urandom,
                        "sql_db_query",
                        [query |-> IF lacks_limit(content)
                                   THEN content \o " LIMIT 10" ELSE content])>>)>>)
         ELSE Ret(<<>>)
    ELSE LET tool_call == last_message.tool_calls[1]
             tool_name == tool_call.name
         IN  IF tool_name \in REASONING_TOOLS THEN Ret(<<>>)
             ELSE IF tool_name = "sql_db_query"
                     /\ lacks_limit(get(tool_call.args, "query", ""))
             THEN Ret(<<AIMessage("", <<ToolCall(tool_call.id, "sql_db_query",
                            [query |-> get(tool_call.args, "query", "") \o " LIMIT 10"])>>)>>)
             ELSE Ret(<<>>)

\* the literal 3 of `if retry_count >= 3`
RETRY_CEILING == 3

\* sum(1 for msg in messages if isinstance(msg, HumanMessage) and "FEEDBACK" in msg.content)
retry_count(state) ==
    Cardinality({i \in 1..Len(state) :
                    state[i].type = "human" /\ contains(state[i].content, "FEEDBACK")})

helper_feedback(tool_name) ==
    "SYSTEM FEEDBACK: Research tool '" \o tool_name
    \o "' complete. You have the schema info. NOW you must write and execute the 'sql_db_query' to get the actual data rows."

binary_feedback ==
    "SYSTEM FEEDBACK: Binary data detected (b'\\x00...'). Retry using HEX(column) or BIN_TO_UUID(column)."

max_retries_text == "Maximum retries reached. I will try to answer with the data I have."

\* "b'\\" in sql_result or "bytearray" in str(sql_result).lower()
has_binary(sql_result) ==
    contains(sql_result, "b'\\") \/ contains(lower(sql_result), "bytearray")

\* the positions of the entries the backward scans accept as the user's question
question_positions(state) ==
    {i \in 1..Len(state) :
        state[i].type = "human" /\ ~startswith(state[i].content, "SYSTEM")}

\* for msg in reversed(messages): the first match, else the default
user_question_of(state, default) ==
    IF question_positions(state) = {} THEN default
    ELSE state[CHOOSE i \in question_positions(state) :
                   \A j \in question_positions(state) : j <= i].content

\* response: the outcome of self.llm.invoke(validation_prompt)
validate_answer_node(state, response) ==
    LET last_message == Last(state)
        after_tool == last_message.type = "tool" /\ Len(state) >= 2
    IN
    IF after_tool /\ ~has_tool_calls_attr(Last2(state))
    THEN Raise(AttributeErrorToolCalls)
    ELSE IF /\ after_tool
            /\ Last2(state).tool_calls # <<>>
            /\ Last2(state).tool_calls[1].name \in HELPER_TOOLS
    THEN Ret(<<HumanMessage(helper_feedback(Last2(state).tool_calls[1].name))>>)
    ELSE IF last_message.type # "tool" \/ last_message.name # "sql_db_query"
    THEN Ret(<<>>)
    ELSE IF has_binary(last_message.content)
    THEN Ret(<<HumanMessage(binary_feedback)>>)
    ELSE IF response.raises
    THEN RaiseLLM(LLMFailure)
    ELSE IF contains(response.message.content, "STATUS: RETRY")
    THEN IF retry_count(state) >= RETRY_CEILING
         THEN RetLLM(<<AIMessage(max_retries_text, <<>>)>>)
         ELSE RetLLM(<<HumanMessage("Validator Feedback: "
                          \o strip(split_last(response.message.content, "FEEDBACK:")))>>)
    ELSE RetLLM(<<response.message>>)

\* response: the outcome of self.llm.invoke(prompt); user_question is bound
\* only by the loop, its default being part of the docstring
generate_final_answer_node(state, response) ==
    IF question_positions(state) = {} THEN Raise(UnboundLocalUserQuestion)
    ELSE IF response.raises THEN RaiseLLM(LLMFailure)
    ELSE RetLLM(<<response.message>>)

\* the most recent sql_db_query result, "No data found." if none
sql_result_of(state) ==
    LET at == {i \in 1..Len(state) :
                  state[i].type = "tool" /\ state[i].name = "sql_db_query"}
    IN  IF at = {} THEN "No data found."
        ELSE state[CHOOSE i \in at : \A j \in at : j <= i].content

\* an edge function that never ends the turn after generate_query
should_continue_NeverEnd(state) == "check_query"

should_continue(state) ==
    IF Last(state).tool_calls = <<>> THEN "end" ELSE "check_query"

\* an edge function that asks for another query unless the verdict is VALID
should_retry_ValidOnly(state) ==
    IF Last(state).type = "ai" /\ contains(Last(state).content, "STATUS: VALID")
    THEN "generate_final_answer"
    ELSE "generate_query"

should_retry(state) ==
    LET last_message == Last(state) IN
    IF /\ last_message.type = "human"
       /\ (contains(last_message.content, "FEEDBACK")
           \/ contains(last_message.content, "Validator"))
    THEN "generate_query"
    ELSE "generate_final_answer"

(***************************************************************************)
(* ToolNode(self.tools): one ToolMessage per tool call of the last          *)
(* AIMessage, in order; none when it carries no tool call.                 *)
(***************************************************************************)

\* what each tool returns; query_result is what the database gives sql_db_query
tool_output(call, query_result) ==
    CASE call.name = "sql_db_query" -> query_result
      [] call.name = "sql_db_get_column_info" -> "[('patient_id', 'binary', 'binary(16)', '')]"
      [] call.name = "sql_db_sample_rows" -> "[(1, 'Ann'), (2, 'Bob'), (3, 'Cy')]"
      [] call.name = "sql_db_find_relevant_tables" -> "Table: patient\n\nTable: lob"
      [] OTHER -> "Error: " \o call.name \o " is not a valid tool"

\* tool_raises: a tool of the batch raises and the node lets it through
tools_node(state, query_result, tool_raises) ==
    LET calls == Last(state).tool_calls IN
    IF calls # <<>> /\ tool_raises THEN Raise(ToolFailure)
    ELSE Ret([i \in 1..Len(calls) |->
                 ToolMessage(tool_output(calls[i], query_result),
                             calls[i].name, calls[i].id)])

(***************************************************************************)
(* SQLAgentGenerator.run: the step ceiling, the loop over the streamed      *)
(* states and the handler of `except Exception`.                           *)
(***************************************************************************)

\* config["recursion_limit"] = 50
recursion_limit == 50

GraphRecursionError ==
    Exc("GraphRecursionError",
        "Recursion limit of 50 reached without hitting a stop condition.")

\* the body of `for step in self.graph.stream(...)` on one streamed state
stream_step(final, state) ==
    LET last_msg == Last(state) IN
    IF last_msg.type = "ai" /\ last_msg.tool_calls = <<>>
       /\ ~contains(last_msg.content, "STATUS:")
    THEN last_msg.content
    ELSE final

\* a handler that catches the repository's own exception class only
is_caught_CustomOnly(e) == e.cls = "CustomException"

\* `except Exception as e` catches e
is_caught(e) == e.cls \in ExceptionSubclasses

error_text(e) == "I encountered an error: " \o e.text

(***************************************************************************)
(* Inputs: what the user, the LLM and the database may give.               *)
(***************************************************************************)

\* proposals the LLM of generate_query chooses freely in one run; after them
\* it answers in plain text
MaxFresh == 3

Questions ==
    {"List patients with Medicaid insurance",
     "Give FEEDBACK on patient scores",
     "SYSTEM users per organization"}

\* the SQL text the LLM writes in a run
Statements ==
    {"SELECT name FROM patient",
     "select name from patient limit 5",
     "DELETE FROM patient",
     "SELECT visit_limit FROM lob"}

\* what the database gives sql_db_query in a run
QueryResults == {"[('Ann',), ('Bob',)]", "[(b'\\x00\\x9f',)]"}

Call(name, args) == ToolCall("", name, args)

ExecCall(query) == Call("sql_db_query", [query |-> query])

ColumnInfoCall == Call("sql_db_get_column_info", [table_name |-> "patient"])

SampleRowsCall == Call("sql_db_sample_rows", [table_name |-> "patient", columns |-> "*"])

RelevantTablesCall ==
    Call("sql_db_find_relevant_tables", [natural_language_query |-> "Medicaid patients"])

GiveUpText == "I could not find that information."

\* what the LLM of generate_query may answer when it writes the SQL text stmt
Proposals(stmt) ==
    {AIMessage("", <<ExecCall(stmt)>>),
     AIMessage("", <<ColumnInfoCall>>),
     AIMessage("", <<SampleRowsCall>>),
     AIMessage(GiveUpText, <<>>),
     AIMessage(stmt, <<>>),
     AIMessage("", <<ColumnInfoCall, ExecCall(stmt)>>),
     AIMessage("", <<ExecCall(stmt), ColumnInfoCall>>)}

\* what the LLM of call_get_schema may answer
SchemaProposals ==
    {AIMessage("", <<RelevantTablesCall>>),
     AIMessage("table_names: patient, lob", <<>>)}

\* what the LLM may answer the validation prompt
Verdicts ==
    {"STATUS: RETRY\nFEEDBACK: The result data type doesn't match the question.",
     "STATUS: VALID\nFEEDBACK: The data answers the question.",
     "The result looks readable."}

\* what the LLM may answer the final prompt
FinalAnswers ==
    {"Two patients have Medicaid insurance.",
     "Claim STATUS: open for two patients."}

Outcomes(msgs) == {LLMReturns(m) : m \in msgs} \cup {LLMRaises}

\* the provider gives each tool call of a response its own id
with_ids(msg, n) ==
    [msg EXCEPT !.tool_calls =
        [i \in 1..Len(msg.tool_calls) |->
            [msg.tool_calls[i] EXCEPT !.id = "call_" \o ToString(n) \o "_" \o ToString(i)]]]

stamp(response, state) ==
    [response EXCEPT !.message = with_ids(response.message, Len(state) + 1)]

(***************************************************************************)
(* SchemaGraph (graph_manager.py): an undirected graph of tables; an edge   *)
(* carries the join condition `on` and a `weight`                           *)
(***************************************************************************)

\* a row of information_schema.KEY_COLUMN_USAGE
FkRow(t1, c1, t2, c2) ==
    [TABLE_NAME |-> t1, COLUMN_NAME |-> c1,
     REFERENCED_TABLE_NAME |-> t2, REFERENCED_COLUMN_NAME |-> c2]

\* nx.Graph()
EmptyGraph == [nodes |-> {}, edges |-> {}]

\* a multigraph: an edge already between the two tables is kept next to the new one
add_edge_Multi(graph, t1, t2, on, weight) ==
    [nodes |-> graph.nodes \cup {t1, t2},
     edges |-> graph.edges \cup {[ends |-> {t1, t2}, on |-> on, weight |-> weight]}]

\* graph.add_edge(t1, t2, on=on, weight=weight): the nodes are added, an edge
\* already between the two tables gets the new attributes
add_edge(graph, t1, t2, on, weight) ==
    [nodes |-> graph.nodes \cup {t1, t2},
     edges |-> {e \in graph.edges : e.ends # {t1, t2}}
               \cup {[ends |-> {t1, t2}, on |-> on, weight |-> weight]}]

\* a build without the penalty on user tables
fk_weight_Flat(t1, t2) == 1

\* lines 51-55; the weights 1.0 and 10.0 are kept as 1 and 10
fk_weight(t1, t2) ==
    IF contains(t1, "user") \/ contains(t2, "user") THEN 10 ELSE 1

RECURSIVE add_fk_edges(_, _)
add_fk_edges(graph, results) ==
    IF results = <<>> THEN graph
    ELSE LET row == Head(results)
             t1 == row.TABLE_NAME
             c1 == row.COLUMN_NAME
             t2 == row.REFERENCED_TABLE_NAME
             c2 == row.REFERENCED_COLUMN_NAME
         IN  add_fk_edges(
                 add_edge(graph, t1, t2,
                          t1 \o "." \o c1 \o " = " \o t2 \o "." \o c2, fk_weight(t1, t2)),
                 Tail(results))

manual_edges ==
    << <<"patient", "map_patient_metrics", "patient.patient_id = map_patient_metrics.patient_id", 1>>,
       <<"map_patient_metrics", "lob", "map_patient_metrics.lob_id = lob.lob_id", 1>>,
       <<"lob", "organization", "lob.org_guid = organization.org_guid", 1>>,
       <<"patient", "patient_score", "patient.patient_id = patient_score.patient_id", 1>>,
       <<"patient", "contributor_individual", "patient.patient_id = contributor_individual.patient_id", 1>>,
       <<"contributor_individual", "contributor_type", "contributor_individual.contr_type = contributor_type.contr_type", 1>>,
       <<"patient", "user", "patient.patient_coordinator = user.user_id", 10>> >>

RECURSIVE add_manual_edges(_, _)
add_manual_edges(graph, edges) ==
    IF edges = <<>> THEN graph
    ELSE add_manual_edges(
             add_edge(graph, Head(edges)[1], Head(edges)[2], Head(edges)[3], Head(edges)[4]),
             Tail(edges))

\* db._execute(fk_query, fetch="all") returned rows
Rows(rows) == [raised |-> FALSE, rows |-> rows]

\* db._execute(fk_query, fetch="all") raised
DbFailure == [raised |-> TRUE, rows |-> <<>>]

\* outcome: what the foreign-key query did. The whole body is in one try: when
\* the query raises, the manual edges are not added either.
_build_graph(outcome) ==
    IF outcome.raised THEN EmptyGraph
    ELSE add_manual_edges(add_fk_edges(EmptyGraph, outcome.rows), manual_edges)

\* self.graph[t_a][t_b]
edge(graph, t_a, t_b) == CHOOSE e \in graph.edges : e.ends = {t_a, t_b}

neighbors(graph, t) == {n \in graph.nodes : \E e \in graph.edges : e.ends = {t, n}}

Range(seq) == {seq[i] : i \in 1..Len(seq)}

\* the simple paths that extend `path` to target
RECURSIVE simple_paths(_, _, _)
simple_paths(graph, path, target) ==
    IF Last(path) = target THEN {path}
    ELSE UNION {simple_paths(graph, Append(path, n), target) :
                   n \in neighbors(graph, Last(path)) \ Range(path)}

RECURSIVE path_weight(_, _)
path_weight(graph, path) ==
    IF Len(path) < 2 THEN 0
    ELSE edge(graph, path[1], path[2]).weight + path_weight(graph, Tail(path))

\* a search that is not given weight='weight': the paths of fewest edges
shortest_paths_Hops(graph, source, target) ==
    LET all == simple_paths(graph, <<source>>, target) IN
    {p \in all : \A q \in all : Len(p) <= Len(q)}

\* the paths of least total weight from source to target; {} when there is none
shortest_paths(graph, source, target) ==
    LET all == simple_paths(graph, <<source>>, target) IN
    {p \in all : \A q \in all : path_weight(graph, p) <= path_weight(graph, q)}

\* nx.shortest_path returns one path of least total weight. Which one among
\* equals follows from the library's search order on the graph: it is not of
\* this repository's choosing, and it is the same at every call on the same
\* graph. A tie-break is a set of paths, one of least weight for each pair of
\* `pairs` that has a path.
RECURSIVE tie_breaks(_, _)
tie_breaks(graph, pairs) ==
    IF pairs = {} THEN {{}}
    ELSE LET pair == CHOOSE p \in pairs : TRUE
             rest == tie_breaks(graph, pairs \ {pair})
             least == shortest_paths(graph, pair[1], pair[2])
         IN  IF least = {} THEN rest
             ELSE {{path} \cup others : path \in least, others \in rest}

\* the path list of a pair without path
NoPath == <<>>

\* nx.shortest_path(self.graph, source=source, target=target, weight='weight')
\* under a tie-break; NoPath stands for raising NetworkXNoPath
nx_shortest_path(tie_break, source, target) ==
    LET found == {p \in tie_break : p[1] = source /\ Last(p) = target} IN
    IF found = {} THEN NoPath ELSE CHOOSE p \in found : TRUE

\* what lines 110-114 add to full_joins for one path
joins_of(graph, path) ==
    {"JOIN " \o path[i + 1] \o " ON " \o edge(graph, path[i], path[i + 1]).on :
        i \in 1..(Len(path) - 1)}

\* full_joins after the loop over the targets
full_joins(graph, tie_break, start, targets) ==
    UNION {joins_of(graph, nx_shortest_path(tie_break, start, target)) : target \in targets}

\* the characters of table names and join conditions, by code point
CodePoints == " '.0123456789=ABCDEFGHIJKLMNOPQRSTUVWXYZ_abcdefghijklmnopqrstuvwxyz"

ord == [c \in {SubSeq(CodePoints, i, i) : i \in 1..Len(CodePoints)} |->
           CHOOSE i \in 1..Len(CodePoints) : SubSeq(CodePoints, i, i) = c]

\* a <= b for Python str: the first position where they differ decides
str_le(a, b) ==
    LET shorter == IF Len(a) <= Len(b) THEN Len(a) ELSE Len(b)
        differ == {i \in 1..shorter : SubSeq(a, i, i) # SubSeq(b, i, i)}
    IN  IF differ = {} THEN Len(a) <= Len(b)
        ELSE LET first == CHOOSE i \in differ : \A k \in differ : i <= k
             IN  ord[SubSeq(a, first, first)] < ord[SubSeq(b, first, first)]

\* sorted(list(strings))
RECURSIVE sorted(_)
sorted(strings) ==
    IF strings = {} THEN <<>>
    ELSE LET least == CHOOSE x \in strings : \A y \in strings : str_le(x, y)
         IN  <<least>> \o sorted(strings \ {least})

\* sep.join(seq)
RECURSIVE join(_, _)
join(sep, seq) ==
    IF seq = <<>> THEN ""
    ELSE IF Len(seq) = 1 THEN seq[1]
    ELSE seq[1] \o sep \o join(sep, Tail(seq))

\* str(set of str): the elements in the order the interpreter iterates the
\* set, which follows from the hash seed of the process; hash_order lists the
\* names in that order
set_repr(set, hash_order) ==
    IF set = {} THEN "set()"
    ELSE LET order == SelectSeq(hash_order, LAMBDA t : t \in set) IN
         "{" \o join(", ", [i \in 1..Len(order) |-> "'" \o order[i] \o "'"]) \o "}"

\* an anchor choice that takes the first valid table whatever the list holds
start_table_First(valid_tables) == valid_tables[1]

\* lines 97-100
start_table(valid_tables) ==
    IF "patient" \in Range(valid_tables) THEN "patient" ELSE valid_tables[1]

\* find_connection_query(table_names) on `graph`; the handler of line 120 has
\* nothing to catch: every target is a node, and every edge carries `on`
find_connection_query(graph, tie_break, hash_order, table_names) ==
    IF Len(table_names) < 2 THEN "Need at least 2 tables to find a connection."
    ELSE LET valid_tables == SelectSeq(table_names, LAMBDA t : t \in graph.nodes) IN
         IF Len(valid_tables) < 2
         THEN "Cannot connect. Tables not found in graph: "
              \o set_repr(Range(table_names) \ graph.nodes, hash_order)
         ELSE LET start == start_table(valid_tables)
                  targets == Range(valid_tables) \ {start}
              IN  IF \E target \in targets : nx_shortest_path(tie_break, start, target) = NoPath
                  THEN "No path found. These tables appear to be disconnected."
                  ELSE "FROM " \o start \o "\n"
                       \o join("\n", sorted(full_joins(graph, tie_break, start, targets)))

(***************************************************************************)
(* The tools of get_db_tools (custom_tools.py). Each takes its arguments    *)
(* and the outcome of the capability it calls, and gives what the tool      *)
(* function does: the text it returns or the exception it lets through.     *)
(***************************************************************************)

\* the tool function returned text
Returned(text) == [raised |-> FALSE, exc |-> NoExc, text |-> text]

\* the tool function let e through
Raised(e) == [raised |-> TRUE, exc |-> e, text |-> ""]

\* an outcome of db.run, db._execute or the vector search: the text it returns
\* ("" for an empty result) or the message of the exception it raises
Gives(text) == [raises |-> FALSE, text |-> text]
Fails(text) == [raises |-> TRUE, text |-> text]

endswith(s, suffix) ==
    /\ Len(suffix) <= Len(s)
    /\ SubSeq(s, Len(s) - Len(suffix) + 1, Len(s)) = suffix

\* s.split(sep) for a separator of one character
RECURSIVE split(_, _)
split(s, sep) ==
    LET at == {i \in 1..Len(s) : SubSeq(s, i, i) = sep} IN
    IF at = {} THEN <<s>>
    ELSE LET first == CHOOSE i \in at : \A k \in at : i <= k
         IN  <<SubSeq(s, 1, first - 1)>> \o split(SubSeq(s, first + 1, Len(s)), sep)

\* search_keyword "" stands for None as well: both are false in `if search_keyword`
sql_db_query_distinct_values(table_name, column_name, search_keyword, run) ==
    IF contains(column_name, "*")
    THEN Returned("Error: You must specify a specific column name, not *")
    ELSE IF run.raises THEN Returned("Error: " \o run.text)
    ELSE IF run.text = ""
    THEN Returned("No values found for column '" \o column_name \o "' in table '"
                  \o table_name \o "' matching '"
                  \o (IF search_keyword # "" THEN search_keyword ELSE "ALL") \o "'.")
    ELSE LET formatted_res ==
                 "Distinct values in " \o table_name \o "." \o column_name
                 \o (IF search_keyword # ""
                     THEN " (Filtered by '" \o search_keyword \o "')" ELSE "")
         IN  Returned(formatted_res \o ":\n" \o run.text)

sql_db_sample_rows(table_name, columns, run) ==
    IF run.raises THEN Returned("Error: " \o run.text) ELSE Returned(run.text)

\* has_store: self.vector_store was built; search: the outcome of
\* vector_store.similarity_search, its documents joined by "\n\n"
search_tables(has_store, search) ==
    IF ~has_store THEN Returned("Error: Vector store not initialized.")
    ELSE IF search.raises THEN Raised(Exc("RuntimeError", search.text))
    ELSE Returned(search.text)

\* no try around schema_rag.search_tables
sql_db_find_relevant_tables(natural_language_query, has_store, search) ==
    search_tables(has_store, search)

sql_db_find_table_connections(table_names_comma_separated, graph, tie_break, hash_order) ==
    LET parts == split(table_names_comma_separated, ",")
        tables == [i \in 1..Len(parts) |-> strip(parts[i])]
    IN  Returned(find_connection_query(graph, tie_break, hash_order, tables))

sql_db_get_foreign_keys(table_name, run) ==
    IF run.raises THEN Returned("Error retrieving foreign keys: " \o run.text)
    ELSE IF run.text = ""
    THEN Returned("No explicit foreign keys found for " \o table_name
                  \o ". You may need to join by matching column names (e.g. patient_id) manually.")
    ELSE Returned("Foreign Key Relationships for " \o table_name \o ":\n" \o run.text)

sql_db_get_column_info(table_name, run) ==
    IF run.raises THEN Returned("Error fetching column info: " \o run.text)
    ELSE Returned(run.text)

\* line 134: the tables the global search looks into
is_lookup_table(t) ==
    \E suffix \in {"_type", "lob", "screening_type", "org_attribute_types"} : endswith(t, suffix)

\* the loop of lines 138-160 over lookup_tables; looks[table] is what the two
\* db._execute calls did for the table: they raised (the table is skipped), or
\* gave the text column `col` and the value found in it ("" when none matches)
RECURSIVE found_locations(_, _)
found_locations(lookup_tables, looks) ==
    IF lookup_tables = <<>> THEN <<>>
    ELSE LET table == Head(lookup_tables)
             look == looks[table]
             rest == found_locations(Tail(lookup_tables), looks)
         IN  IF look.raises \/ look.example = "" THEN rest
             ELSE <<"Table: " \o table \o " | Column: " \o look.col
                    \o " | Example: " \o look.example>> \o rest

\* all_tables: db.get_usable_table_names(), a sorted list the database object
\* holds since construction
sql_db_find_value_location(search_term, all_tables, looks) ==
    LET lookup_tables == SelectSeq(all_tables, is_lookup_table)
        found == found_locations(lookup_tables, looks)
    IN  IF found = <<>>
        THEN Returned("Could not find value '" \o search_term
                      \o "' in common lookup tables. Try searching in 'contributor_type' table manually.")
        ELSE Returned("Value Found in:\n" \o join("\n", found))

\* tables a caller may name; "ghost" is no table of any graph
TableNames == {"patient", "lob", "organization", "claim", "ghost"}

MaxTables == 3

TableLists == UNION {[1..n -> TableNames] : n \in 0..MaxTables}

\* the pairs (start, target) a request over TableNames can ask a path for: the
\* start is "patient" whenever "patient" is requested, so it is never a target
RequestPairs(graph) ==
    {<<source, target>> : source \in TableNames \cap graph.nodes,
                          target \in (TableNames \cap graph.nodes) \ {"patient"}}
        \ {<<t, t>> : t \in TableNames}

RECURSIVE reversed(_)
reversed(seq) == IF seq = <<>> THEN <<>> ELSE reversed(Tail(seq)) \o <<Head(seq)>>

\* iteration orders of a set of table names, one per hash seed followed
HashOrders == {sorted(TableNames), reversed(sorted(TableNames))}

\* find_connection_query calls followed on one graph
MaxCalls == 2

(***************************************************************************)
(* State                                                                   *)
(***************************************************************************)

VARIABLES
    pc,                      \* the node about to run; "idle" before run is called, "done" once run is over
    messages,                \* the message list of the thread, kept by the checkpointer
    step,                    \* nodes executed in the run
    final_response_content,  \* the local of run
    result,                  \* what run returned
    propagated,              \* run let an exception through to its caller
    raised,                  \* the exception the stream raised in the run, NoExc if none
    statement,               \* the SQL text the LLM writes in this run
    db_result,               \* what the database gives sql_db_query in this run
    habit,                   \* the last proposal and verdict of the LLM
    stuck,                   \* the LLM repeats habit for the rest of the run
    fresh,                   \* proposals chosen freely at generate_query
    loops,                   \* returns from validate_answer to generate_query in the run
    validator_calls,         \* invocations of the LLM validator in the run
    dispatched,              \* the tool calls run_tools executed in the run, in order
    graph,                   \* SchemaGraph.graph
    tie_break,               \* the path nx.shortest_path returns for each pair of tables of this graph
    hash_order,              \* the order in which this process iterates a set of table names
    n_calls,                 \* find_connection_query calls answered so far
    table_names,             \* the argument of the last find_connection_query call
    connection,              \* what the last find_connection_query call returned, "" before the first
    tool_call,               \* the last call of a tool function: its name, arguments and what its capability did
    tool_return,             \* what that call did: the text returned or the exception let through
    storage,                 \* MemorySaver: the messages checkpointed under each thread id
    threads,                 \* for each session, the run agent.run is executing or executed last for it
    started,                 \* calls of agent.run so far, over all sessions
    build,                   \* where SchemaGraph._build_graph stands: the rows and manual edges left to add
    http                     \* main.py: whether agent_instance is set, and the requests to /chat answered so far

vars == <<pc, messages, step, final_response_content, result, propagated, raised,
          statement, db_result, habit, stuck, fresh, loops, validator_calls, dispatched,
          graph, tie_break, hash_order, n_calls, table_names, connection,
          tool_call, tool_return, storage, threads, started, build, http>>

workflow == <<pc, messages, step, final_response_content, result, propagated, raised,
              statement, db_result, habit, stuck, fresh, loops, validator_calls, dispatched>>
schema == <<graph, tie_break, hash_order, n_calls, table_names, connection>>
toolbox == <<tool_call, tool_return>>
memory == <<storage, threads, started>>

env == <<statement, db_result, habit, stuck, fresh>>
ghost == <<loops, validator_calls, dispatched>>

\* the session identifiers of the requests, and the default of run's parameter
Sessions == {"alice", "bob"}
ThreadIds == Sessions \cup {"default_session"}

\* a session no run was started for
NoThread ==
    [pc |-> "idle", channel |-> <<>>, step |-> 0, final_response_content |-> "",
     result |-> "", raised |-> NoExc, propagated |-> FALSE, fresh |-> 0,
     own |-> <<>>, turn_start |-> 0]

\* _build_graph has returned; `added` lists what each add_edge call was given
Built == [pc |-> "done", raises |-> FALSE, results |-> <<>>, todo |-> <<>>, added |-> <<>>]

InitMemory ==
    /\ storage = [id \in ThreadIds |-> <<>>]
    /\ threads = [s \in Sessions |-> NoThread]
    /\ started = 0
    /\ build = Built
    /\ http = [agent_loaded |-> TRUE, exchanges |-> <<>>]

\* before any tool function was called
NoCall == [name |-> "", args |-> <<>>, outcome |-> <<>>]

NoHabit == [has_p |-> FALSE, p |-> LLMRaises, has_v |-> FALSE, v |-> LLMRaises]

InitWorkflow ==
    /\ pc = "idle"
    /\ messages = <<>>
    /\ step = 0
    /\ final_response_content = ""
    /\ result = ""
    /\ propagated = FALSE
    /\ raised = NoExc
    /\ statement = ""
    /\ db_result = ""
    /\ habit = NoHabit
    /\ stuck = FALSE
    /\ fresh = 0
    /\ loops = 0
    /\ validator_calls = 0
    /\ dispatched = <<>>

\* the agent is constructed on a database whose foreign-key query gives no rows
Init ==
    /\ InitWorkflow
    /\ graph = _build_graph(Rows(<<>>))
    /\ tie_break \in tie_breaks(graph, RequestPairs(graph))
    /\ hash_order = sorted(TableNames)
    /\ n_calls = 0
    /\ table_names = <<>>
    /\ connection = ""
    /\ tool_call = NoCall
    /\ tool_return = Returned("")
    /\ InitMemory

Running == pc \notin {"idle", "done"}

\* a reducer that puts an assistant message with tool calls in the place of
\* the assistant message before it, as for a message returned under the same id
Advance_Replace(new_msgs, goto) ==
    LET replaces == /\ Len(new_msgs) = 1
                    /\ new_msgs[1].type = "ai" /\ new_msgs[1].tool_calls # <<>>
                    /\ messages # <<>>
                    /\ Last(messages).type = "ai" /\ Last(messages).tool_calls # <<>>
        state == IF replaces
                 THEN SubSeq(messages, 1, Len(messages) - 1) \o new_msgs
                 ELSE messages \o new_msgs
    IN  /\ messages' = state
        /\ step' = step + 1
        /\ final_response_content' = stream_step(final_response_content, state)
        /\ pc' = IF goto = "END" THEN "done" ELSE goto
        /\ result' = IF goto = "END" THEN stream_step(final_response_content, state)
                     ELSE result
        /\ UNCHANGED <<propagated, raised, schema, toolbox, memory, build, http>>

\* a node returned new_msgs and the graph goes to `goto`; the state is
\* streamed to run, which returns once the graph is at END
Advance(new_msgs, goto) ==
    /\ messages' = messages \o new_msgs
    /\ step' = step + 1
    /\ final_response_content' = stream_step(final_response_content, messages \o new_msgs)
    /\ pc' = IF goto = "END" THEN "done" ELSE goto
    /\ result' = IF goto = "END"
                 THEN stream_step(final_response_content, messages \o new_msgs)
                 ELSE result
    /\ UNCHANGED <<propagated, raised, schema, toolbox, memory, build, http>>

\* a node raised e: the stream ends, the checkpoint keeps the messages so far
Abort(e) ==
    /\ pc' = "done"
    /\ final_response_content' = IF is_caught(e) THEN error_text(e) ELSE final_response_content
    /\ result' = IF is_caught(e) THEN error_text(e) ELSE result
    /\ propagated' = ~is_caught(e)
    /\ raised' = e
    /\ UNCHANGED <<messages, step, schema, toolbox, memory, build, http>>

\* the outcome `out` of a node, followed by the edge `goto`
Finish(out, goto) ==
    IF out.exc # NoExc THEN Abort(out.exc) ELSE Advance(out.messages, goto)

\* a stream that is given no step ceiling
CanStep_NoCeiling(node) == pc = node

CanStep(node) == pc = node /\ step < recursion_limit

(***************************************************************************)
(* run(question): the question joins the thread's messages, the graph      *)
(* starts at list_tables                                                   *)
(***************************************************************************)
Run(question) ==
    /\ pc = "idle"
    /\ messages' = Append(messages, HumanMessage(question))
    /\ pc' = "list_tables"
    /\ step' = 0
    /\ final_response_content' = ""
    /\ result' = ""
    /\ propagated' = FALSE
    /\ raised' = NoExc
    /\ statement' \in Statements
    /\ db_result' \in QueryResults
    /\ UNCHANGED <<habit, stuck, fresh, ghost>>
    /\ UNCHANGED <<schema, toolbox, memory, build, http>>

ListTables ==
    /\ CanStep("list_tables")
    /\ Finish(list_tables_node(messages), "call_get_schema")
    /\ UNCHANGED <<env, ghost>>

SelectTables ==
    /\ CanStep("call_get_schema")
    /\ \E response \in Outcomes(SchemaProposals) :
          Finish(call_get_schema_node(messages, stamp(response, messages)), "get_schema")
    /\ UNCHANGED <<env, ghost>>

\* sql_db_find_relevant_tables lets a failure of the vector search through
may_raise(calls) ==
    \E i \in 1..Len(calls) : calls[i].name = "sql_db_find_relevant_tables"

SchemaFetch ==
    /\ CanStep("get_schema")
    /\ \E tool_raises \in {FALSE} \cup {may_raise(Last(messages).tool_calls)} :
          Finish(tools_node(messages, "", tool_raises), "generate_query")
    /\ UNCHANGED <<env, ghost>>

\* generate_query on the LLM outcome `response`, then should_continue
Generate(response) ==
    LET out == generate_query_node(messages, stamp(response, messages))
    IN  Finish(out, IF out.exc # NoExc THEN ""
                    ELSE IF should_continue(messages \o out.messages) = "end" THEN "END"
                    ELSE "check_query")

GenerateQuery ==
    /\ CanStep("generate_query")
    /\ \/ /\ ~stuck
          /\ fresh < MaxFresh
          /\ \E response \in Outcomes(Proposals(statement)) :
                /\ habit' = [NoHabit EXCEPT !.has_p = TRUE, !.p = response]
                /\ Generate(response)
          /\ fresh' = fresh + 1
          /\ stuck' = stuck
       \/ \* the LLM starts repeating its first proposal, or goes on repeating it
          /\ fresh = 1
          /\ stuck' = TRUE
          /\ Generate(habit.p)
          /\ UNCHANGED <<habit, fresh>>
       \/ \* the free proposals are used up
          /\ ~stuck
          /\ fresh >= MaxFresh
          /\ Generate(LLMReturns(AIMessage(GiveUpText, <<>>)))
          /\ UNCHANGED <<habit, stuck, fresh>>
    /\ UNCHANGED <<statement, db_result, ghost>>

CheckQuery ==
    /\ CanStep("check_query")
    /\ \E urandom \in {"9f3a1c07"} :
          Finish(check_query_node(messages, urandom), "run_tools")
    /\ UNCHANGED <<env, ghost>>

RunTools ==
    /\ CanStep("run_tools")
    /\ Finish(tools_node(messages, db_result, FALSE), "validate_answer")
    /\ dispatched' = dispatched \o Last(messages).tool_calls
    /\ UNCHANGED <<env, loops, validator_calls>>

\* validate_answer on the validator's outcome `response`, then should_retry
Validate(response) ==
    LET out == validate_answer_node(messages, response)
        goto == IF out.exc = NoExc THEN should_retry(messages \o out.messages) ELSE ""
    IN  /\ Finish(out, goto)
        /\ habit' = IF out.llm_called
                    THEN [habit EXCEPT !.v = response, !.has_v = TRUE]
                    ELSE habit
        /\ validator_calls' = validator_calls + (IF out.llm_called THEN 1 ELSE 0)
        /\ loops' = loops + (IF goto = "generate_query" THEN 1 ELSE 0)

ValidateAnswer ==
    /\ CanStep("validate_answer")
    /\ \E response \in
             IF ~validate_answer_node(messages, LLMRaises).llm_called THEN {LLMRaises}
             ELSE IF stuck /\ habit.has_v THEN {habit.v}
             ELSE Outcomes({AIMessage(v, <<>>) : v \in Verdicts}) :
          Validate(response)
    /\ UNCHANGED <<statement, db_result, stuck, fresh, dispatched>>

GenerateFinalAnswer ==
    /\ CanStep("generate_final_answer")
    /\ \E response \in
             IF ~generate_final_answer_node(messages, LLMRaises).llm_called THEN {LLMRaises}
             ELSE Outcomes({AIMessage(a, <<>>) : a \in FinalAnswers}) :
          Finish(generate_final_answer_node(messages, response), "END")
    /\ UNCHANGED <<env, ghost>>

\* the step ceiling: the stream raises instead of running another node
OutOfSteps ==
    /\ Running
    /\ step >= recursion_limit
    /\ Abort(GraphRecursionError)
    /\ UNCHANGED <<env, ghost>>

Step ==
    \/ ListTables
    \/ SelectTables
    \/ SchemaFetch
    \/ GenerateQuery
    \/ CheckQuery
    \/ RunTools
    \/ ValidateAnswer
    \/ GenerateFinalAnswer
    \/ OutOfSteps

Next ==
    \/ \E question \in Questions : Run(question)
    \/ Step

Spec == Init /\ [][Next]_vars

(***************************************************************************)
(* The schema graph on its own: built at construction from the rows of the *)
(* foreign-key query, then asked for connections                           *)
(***************************************************************************)

\* foreign keys the database may hold
FkRows ==
    << FkRow("patient_score", "lob_id", "lob", "lob_id"),
       FkRow("claim", "payer_id", "payer", "payer_id"),
       FkRow("user", "org_guid", "organization", "org_guid") >>

\* the rows of seq at the positions in `keep`, in order
RECURSIVE rows_at(_, _, _)
rows_at(seq, keep, i) ==
    IF i > Len(seq) THEN <<>>
    ELSE (IF i \in keep THEN <<seq[i]>> ELSE <<>>) \o rows_at(seq, keep, i + 1)

\* outcomes of the foreign-key query
FkResults ==
    {Rows(rows_at(FkRows, keep, 1)) : keep \in SUBSET (1..Len(FkRows))} \cup {DbFailure}

InitGraph ==
    /\ InitWorkflow
    /\ \E outcome \in FkResults : graph = _build_graph(outcome)
    /\ tie_break \in tie_breaks(graph, RequestPairs(graph))
    /\ hash_order \in HashOrders
    /\ n_calls = 0
    /\ table_names = <<>>
    /\ connection = ""
    /\ tool_call = NoCall
    /\ tool_return = Returned("")
    /\ InitMemory

\* a lookup that makes a node of every requested table it does not find
FindConnectionQuery_AddsNodes(names) ==
    /\ n_calls = 0
    /\ table_names' = names
    /\ connection' = find_connection_query(graph, tie_break, hash_order, names)
    /\ n_calls' = 1
    /\ graph' = [graph EXCEPT !.nodes = graph.nodes \cup Range(names)]
    /\ UNCHANGED <<workflow, tie_break, hash_order, toolbox, memory, build, http>>

\* find_connection_query reads the graph and keeps nothing, so a request
\* starts from the graph as constructed: the first request names any list,
\* a later one is followed as the repetition of the request before it
FindConnectionQuery(names) ==
    /\ n_calls = 0
    /\ table_names' = names
    /\ connection' = find_connection_query(graph, tie_break, hash_order, names)
    /\ n_calls' = 1
    /\ UNCHANGED <<workflow, graph, tie_break, hash_order, toolbox, memory, build, http>>

\* a library that may return another path of least weight at the next call
FindConnectionAgain_AnyPath ==
    /\ n_calls \in 1..(MaxCalls - 1)
    /\ \E other \in tie_breaks(graph, RequestPairs(graph)) :
          connection' = find_connection_query(graph, other, hash_order, table_names)
    /\ n_calls' = n_calls + 1
    /\ UNCHANGED <<workflow, graph, tie_break, hash_order, table_names, toolbox, memory, build, http>>

FindConnectionAgain ==
    /\ n_calls \in 1..(MaxCalls - 1)
    /\ connection' = find_connection_query(graph, tie_break, hash_order, table_names)
    /\ n_calls' = n_calls + 1
    /\ UNCHANGED <<workflow, graph, tie_break, hash_order, table_names, toolbox, memory, build, http>>

NextGraph ==
    \/ \E names \in TableLists : FindConnectionQuery(names)
    \/ FindConnectionAgain

SpecGraph == InitGraph /\ [][NextGraph]_vars

(***************************************************************************)
(* SchemaGraph._build_graph step by step: the foreign-key query, one        *)
(* add_edge per row, then one add_edge per manual edge                      *)
(***************************************************************************)

\* rows the foreign-key query may return, in the order returned
MaxRows == 2

\* foreign keys of the database: one next to a manual edge in the opposite
\* direction, two between one pair of tables, one of a user table
BuildRows ==
    {FkRow("patient_score", "patient_id", "patient", "patient_id"),
     FkRow("claim", "payer_id", "payer", "payer_id"),
     FkRow("payer", "last_claim_id", "claim", "claim_id"),
     FkRow("user", "org_guid", "organization", "org_guid")}

BuildResults ==
    {Rows(rows) : rows \in UNION {[1..n -> BuildRows] : n \in 0..MaxRows}} \cup {DbFailure}

InitBuild ==
    /\ InitWorkflow
    /\ graph = EmptyGraph
    /\ tie_break = {}
    /\ hash_order = sorted(TableNames)
    /\ n_calls = 0
    /\ table_names = <<>>
    /\ connection = ""
    /\ tool_call = NoCall
    /\ tool_return = Returned("")
    /\ storage = [id \in ThreadIds |-> <<>>]
    /\ threads = [s \in Sessions |-> NoThread]
    /\ started = 0
    /\ http = [agent_loaded |-> TRUE, exchanges |-> <<>>]
    /\ \E outcome \in BuildResults :
          build = [pc |-> "query", raises |-> outcome.raised, results |-> outcome.rows,
                   todo |-> manual_edges, added |-> <<>>]

\* results = self.db._execute(fk_query, fetch="all"); when it raises the
\* handler logs and the graph stays as it is
Query ==
    /\ build.pc = "query"
    /\ build' = [build EXCEPT !.pc = IF build.raises THEN "done" ELSE "rows"]
    /\ UNCHANGED <<workflow, schema, toolbox, memory, http>>

\* one round of `for row in results`
AddFkEdge ==
    /\ build.pc = "rows"
    /\ build.results # <<>>
    /\ LET row == Head(build.results)
           after == add_fk_edges(graph, <<row>>)
       IN  /\ graph' = after
           /\ build' = [build EXCEPT !.results = Tail(build.results),
                           !.added = Append(build.added,
                               [ends |-> {row.TABLE_NAME, row.REFERENCED_TABLE_NAME},
                                on |-> row.TABLE_NAME \o "." \o row.COLUMN_NAME \o " = "
                                       \o row.REFERENCED_TABLE_NAME \o "."
                                       \o row.REFERENCED_COLUMN_NAME,
                                weight |-> fk_weight(row.TABLE_NAME,
                                                     row.REFERENCED_TABLE_NAME)])]
    /\ UNCHANGED <<workflow, tie_break, hash_order, n_calls, table_names, connection,
                   toolbox, memory, http>>

\* one round of `for t1, t2, condition, w in manual_edges`, entered once the
\* rows are through; after the last round _build_graph returns
AddManualEdge ==
    /\ build.pc = "rows"
    /\ build.results = <<>>
    /\ build.todo # <<>>
    /\ LET after == add_manual_edges(graph, <<Head(build.todo)>>)
       IN  /\ graph' = after
           /\ build' = [build EXCEPT !.todo = Tail(build.todo),
                           !.pc = IF Tail(build.todo) = <<>> THEN "done" ELSE "rows",
                           !.added = Append(build.added,
                               [ends |-> {Head(build.todo)[1], Head(build.todo)[2]},
                                on |-> Head(build.todo)[3],
                                weight |-> Head(build.todo)[4]])]
    /\ UNCHANGED <<workflow, tie_break, hash_order, n_calls, table_names, connection,
                   toolbox, memory, http>>

NextBuild ==
    \/ Query
    \/ AddFkEdge
    \/ AddManualEdge

SpecBuild == InitBuild /\ [][NextBuild]_vars

(***************************************************************************)
(* main.py: POST /chat. FastAPI parses the body into a ChatRequest, calls   *)
(* chat_endpoint and turns an HTTPException into the response.             *)
(***************************************************************************)

\* requests to /chat followed
MaxRequests == 2

\* the session identifier a body may carry; "" stands for a body without one
BodySessions == {"", "alice", "bob"}

\* bodies with a query
Bodies == [query : Questions, session_id : BodySessions]

\* what agent_instance.run may return
RunResults == {"Two patients have Medicaid insurance.", "I encountered an error: LLM failure"}

\* class ChatRequest(BaseModel): query: str. The model keeps its declared
\* fields; another key of the body is ignored
ChatRequest(body) == [query |-> body.query]

\* request.session_id on a model without that field
AttributeErrorSessionId ==
    Exc("AttributeError", "'ChatRequest' object has no attribute 'session_id'")

\* what the endpoint did: the status and text of the response and the calls of run
Response(status, text, run_calls) == [status |-> status, text |-> text, run_calls |-> run_calls]

\* chat_endpoint(request) with agent_instance set or not; run_result is what
\* agent_instance.run returns when it is called
chat_endpoint(agent_loaded, request, run_result) ==
    IF ~agent_loaded THEN Response(503, "Agent not initialized", <<>>)
    ELSE IF "session_id" \notin DOMAIN request
    THEN Response(500, AttributeErrorSessionId.text, <<>>)
    ELSE Response(200, run_result, << <<request.query, request.session_id>> >>)

InitChat ==
    /\ InitWorkflow
    /\ graph = _build_graph(Rows(<<>>))
    /\ tie_break \in tie_breaks(graph, RequestPairs(graph))
    /\ hash_order = sorted(TableNames)
    /\ n_calls = 0
    /\ table_names = <<>>
    /\ connection = ""
    /\ tool_call = NoCall
    /\ tool_return = Returned("")
    /\ storage = [id \in ThreadIds |-> <<>>]
    /\ threads = [s \in Sessions |-> NoThread]
    /\ started = 0
    /\ build = Built
    /\ \E agent_loaded \in BOOLEAN : http = [agent_loaded |-> agent_loaded, exchanges |-> <<>>]

\* POST /chat with a body that has a query
Chat(body, run_result) ==
    /\ Len(http.exchanges) < MaxRequests
    /\ http' = [http EXCEPT !.exchanges =
          Append(http.exchanges,
                 [body |-> body,
                  run_result |-> run_result,
                  response |-> chat_endpoint(http.agent_loaded, ChatRequest(body), run_result)])]
    /\ UNCHANGED <<workflow, schema, toolbox, memory, build>>

NextChat == \E body \in Bodies, run_result \in RunResults : Chat(body, run_result)

SpecChat == InitChat /\ [][NextChat]_vars

(***************************************************************************)
(* The tool functions on their own: any tool is called with any argument,  *)
(* and the database, the vector search and the graph answer or fail        *)
(***************************************************************************)

\* table and column arguments the LLM may give
ToolTables == {"patient", "lob", "contributor_type"}
ToolColumns == {"label", "*"}
SampleColumns == {"*", "patient_id, first_name"}
Keywords == {"", "Home"}

\* what db.run may do
RunOutcomes ==
    {Gives("[('Homelessness',), ('Home Care',)]"),
     Gives(""),
     Fails("(1146, \"Table 'caliper.ghost' doesn't exist\")"),
     Fails("(2006, 'MySQL server has gone away')")}

\* what vector_store.similarity_search may do
SearchOutcomes ==
    {Gives("Table: patient\n\nTable: lob"),
     Fails("503 The embedding service is unavailable")}

\* texts the LLM may give sql_db_find_table_connections
ConnectionRequests ==
    {"patient, lob", "lob,organization", "patient", " organization , ghost ,patient",
     "ghost, phantom", ""}

\* db.get_usable_table_names()
UsableTables == <<"contributor_type", "lob", "patient">>

\* what the two db._execute calls of the global search may do for one table
LookOutcomes ==
    {[raises |-> TRUE, col |-> "", example |-> ""],
     [raises |-> FALSE, col |-> "label", example |-> "Homelessness"],
     [raises |-> FALSE, col |-> "label", example |-> ""]}

SearchTerms == {"Home", "Medicaid"}

QueryDistinctValues ==
    \E table_name \in ToolTables, column_name \in ToolColumns,
       search_keyword \in Keywords, run \in RunOutcomes :
        /\ tool_call' = [name |-> "sql_db_query_distinct_values", args |-> <<table_name, column_name, search_keyword>>,
                          outcome |-> run]
        /\ tool_return' = sql_db_query_distinct_values(table_name, column_name, search_keyword, run)
        /\ UNCHANGED <<workflow, schema, memory, build, http>>

SampleRows ==
    \E table_name \in ToolTables, columns \in SampleColumns, run \in RunOutcomes :
        /\ tool_call' = [name |-> "sql_db_sample_rows", args |-> <<table_name, columns>>,
                          outcome |-> run]
        /\ tool_return' = sql_db_sample_rows(table_name, columns, run)
        /\ UNCHANGED <<workflow, schema, memory, build, http>>

FindRelevantTables ==
    \E query \in Questions, has_store \in BOOLEAN, search \in SearchOutcomes :
        /\ tool_call' = [name |-> "sql_db_find_relevant_tables", args |-> <<query>>,
                          outcome |-> [has_store |-> has_store, search |-> search]]
        /\ tool_return' = sql_db_find_relevant_tables(query, has_store, search)
        /\ UNCHANGED <<workflow, schema, memory, build, http>>

FindTableConnections ==
    \E request \in ConnectionRequests :
        /\ tool_call' = [name |-> "sql_db_find_table_connections", args |-> <<request>>,
                          outcome |-> <<>>]
        /\ tool_return' = sql_db_find_table_connections(request, graph, tie_break, hash_order)
        /\ UNCHANGED <<workflow, schema, memory, build, http>>

GetForeignKeys ==
    \E table_name \in ToolTables, run \in RunOutcomes :
        /\ tool_call' = [name |-> "sql_db_get_foreign_keys", args |-> <<table_name>>,
                          outcome |-> run]
        /\ tool_return' = sql_db_get_foreign_keys(table_name, run)
        /\ UNCHANGED <<workflow, schema, memory, build, http>>

GetColumnInfo ==
    \E table_name \in ToolTables, run \in RunOutcomes :
        /\ tool_call' = [name |-> "sql_db_get_column_info", args |-> <<table_name>>,
                          outcome |-> run]
        /\ tool_return' = sql_db_get_column_info(table_name, run)
        /\ UNCHANGED <<workflow, schema, memory, build, http>>

FindValueLocation ==
    \E search_term \in SearchTerms,
       looks \in [{t \in Range(UsableTables) : is_lookup_table(t)} -> LookOutcomes] :
        /\ tool_call' = [name |-> "sql_db_find_value_location", args |-> <<search_term>>,
                          outcome |-> looks]
        /\ tool_return' = sql_db_find_value_location(search_term, UsableTables, looks)
        /\ UNCHANGED <<workflow, schema, memory, build, http>>

NextTools ==
    \/ QueryDistinctValues
    \/ SampleRows
    \/ FindRelevantTables
    \/ FindTableConnections
    \/ GetForeignKeys
    \/ GetColumnInfo
    \/ FindValueLocation

SpecTools == Init /\ [][NextTools]_vars

(***************************************************************************)
(* Sessions: requests with session identifiers run the one compiled graph  *)
(* of the one agent, whose checkpointer keeps a message list per thread id. *)
(* The runs of different sessions interleave node by node.                  *)
(***************************************************************************)

\* calls of agent.run, over all sessions
MaxRuns == 2

\* proposals the LLM of generate_query chooses freely in one run of a session
MaxProposals == 1

\* what the users, the LLM and the database give the runs of the sessions;
\* here the LLM always answers, the vector search may fail
SessionQuestions ==
    {"List patients with Medicaid insurance", "Give FEEDBACK on patient scores"}
SessionStatement == "SELECT name FROM patient"
SessionRows == "[('Ann',), ('Bob',)]"
\* what the database gives the statement of a session: the table alice asks
\* about may also give a binary column
SessionResults(s) ==
    IF s = "alice" THEN {SessionRows, "[(b'\\x00\\x9f',)]"} ELSE {SessionRows}
SessionVerdicts ==
    {"STATUS: RETRY\nFEEDBACK: The result data type doesn't match the question.",
     "STATUS: VALID\nFEEDBACK: The data answers the question."}
\* what the LLM of generate_query proposes in a session while it chooses
\* freely: in bob's session it may also look at sample rows
SessionProposals(s) ==
    {AIMessage("", <<ExecCall(SessionStatement)>>), AIMessage(GiveUpText, <<>>)}
    \cup (IF s = "bob" THEN {AIMessage("", <<SampleRowsCall>>)} ELSE {})
SessionAnswers == {"Two patients have Medicaid insurance."}
Answers(msgs) == {LLMReturns(m) : m \in msgs}

\* config["configurable"] = {"thread_id": session_id}, with the parameter's default
thread_id_Default(session_id) == "default_session"

\* config["configurable"] = {"thread_id": session_id}
thread_id(session_id) == session_id

\* a node of the run of session s returned new_msgs and the graph goes to
\* `goto`: the state is checkpointed under the run's thread id and streamed;
\* `proposals` is 1 when the LLM chose the messages freely at generate_query
SessionAdvance(s, new_msgs, goto, proposals) ==
    LET t == threads[s]
        state == t.channel \o new_msgs
        final == stream_step(t.final_response_content, state)
    IN  /\ threads' = [threads EXCEPT ![s] =
              [t EXCEPT !.channel = state,
                        !.step = t.step + 1,
                        !.final_response_content = final,
                        !.pc = IF goto = "END" THEN "done" ELSE goto,
                        !.result = IF goto = "END" THEN final ELSE t.result,
                        !.fresh = t.fresh + proposals,
                        !.own = t.own \o new_msgs]]
        /\ storage' = [storage EXCEPT ![thread_id(s)] = state]

\* a node of the run of session s raised e
SessionAbort(s, e) ==
    LET t == threads[s] IN
    /\ threads' = [threads EXCEPT ![s] =
          [t EXCEPT !.pc = "done",
                    !.final_response_content =
                        IF is_caught(e) THEN error_text(e) ELSE t.final_response_content,
                    !.result = IF is_caught(e) THEN error_text(e) ELSE t.result,
                    !.propagated = ~is_caught(e),
                    !.raised = e]]
    /\ UNCHANGED storage

SessionFinish(s, out, goto) ==
    /\ IF out.exc # NoExc THEN SessionAbort(s, out.exc)
       ELSE SessionAdvance(s, out.messages, goto, 0)
    /\ UNCHANGED <<workflow, schema, toolbox, started, build, http>>

At(s, node) == threads[s].pc = node /\ threads[s].step < recursion_limit

\* a run that does not load the checkpoint of its thread
SessionRun_Fresh(s, question) ==
    LET state == <<HumanMessage(question)>>
    IN  /\ threads[s].pc \in {"idle", "done"}
        /\ started < MaxRuns
        /\ started' = started + 1
        /\ threads' = [threads EXCEPT ![s] =
              [pc |-> "list_tables", channel |-> state, step |-> 0,
               final_response_content |-> "", result |-> "", raised |-> NoExc,
               propagated |-> FALSE, fresh |-> 0,
               own |-> Append(threads[s].own, HumanMessage(question)),
               turn_start |-> Len(state)]]
        /\ storage' = [storage EXCEPT ![thread_id(s)] = state]
        /\ UNCHANGED <<workflow, schema, toolbox, build, http>>

\* run(question, session_id = s): the graph loads the checkpoint of the
\* thread id, the question joins its messages, the graph starts
SessionRun(s, question) ==
    LET loaded == storage[thread_id(s)]
        state == Append(loaded, HumanMessage(question))
    IN  /\ threads[s].pc \in {"idle", "done"}
        /\ started < MaxRuns
        /\ started' = started + 1
        /\ threads' = [threads EXCEPT ![s] =
              [pc |-> "list_tables", channel |-> state, step |-> 0,
               final_response_content |-> "", result |-> "", raised |-> NoExc,
               propagated |-> FALSE, fresh |-> 0,
               own |-> Append(threads[s].own, HumanMessage(question)),
               turn_start |-> Len(state)]]
        /\ storage' = [storage EXCEPT ![thread_id(s)] = state]
        /\ UNCHANGED <<workflow, schema, toolbox, build, http>>

SessionListTables(s) ==
    /\ At(s, "list_tables")
    /\ SessionFinish(s, list_tables_node(threads[s].channel), "call_get_schema")

SessionSelectTables(s) ==
    /\ At(s, "call_get_schema")
    /\ \E response \in Answers({AIMessage("", <<RelevantTablesCall>>)}) :
          SessionFinish(s, call_get_schema_node(threads[s].channel,
                                                stamp(response, threads[s].channel)),
                        "get_schema")

SessionSchemaFetch(s) ==
    /\ At(s, "get_schema")
    /\ \E tool_raises \in {FALSE} \cup {may_raise(Last(threads[s].channel).tool_calls)} :
          SessionFinish(s, tools_node(threads[s].channel, "", tool_raises), "generate_query")

SessionGenerateQuery(s) ==
    /\ At(s, "generate_query")
    /\ \E response \in
             IF threads[s].fresh < MaxProposals
             THEN Answers(SessionProposals(s))
             ELSE {LLMReturns(AIMessage(GiveUpText, <<>>))} :
          LET state == threads[s].channel
              out == generate_query_node(state, stamp(response, state))
              goto == IF out.exc # NoExc THEN ""
                      ELSE IF should_continue(state \o out.messages) = "end" THEN "END"
                      ELSE "check_query"
          IN  /\ IF out.exc # NoExc THEN SessionAbort(s, out.exc)
                 ELSE SessionAdvance(s, out.messages, goto,
                                     IF threads[s].fresh < MaxProposals THEN 1 ELSE 0)
              /\ UNCHANGED <<workflow, schema, toolbox, started, build, http>>

SessionCheckQuery(s) ==
    /\ At(s, "check_query")
    /\ SessionFinish(s, check_query_node(threads[s].channel, "9f3a1c07"), "run_tools")

SessionRunTools(s) ==
    /\ At(s, "run_tools")
    /\ \E query_result \in SessionResults(s) :
          SessionFinish(s, tools_node(threads[s].channel, query_result, FALSE), "validate_answer")

SessionValidateAnswer(s) ==
    /\ At(s, "validate_answer")
    /\ \E response \in
             IF ~validate_answer_node(threads[s].channel, LLMRaises).llm_called
             THEN {LLMRaises}
             ELSE Answers({AIMessage(v, <<>>) : v \in SessionVerdicts}) :
          LET out == validate_answer_node(threads[s].channel, response) IN
          SessionFinish(s, out, IF out.exc = NoExc
                                THEN should_retry(threads[s].channel \o out.messages)
                                ELSE "")

SessionGenerateFinalAnswer(s) ==
    /\ At(s, "generate_final_answer")
    /\ \E response \in
             IF ~generate_final_answer_node(threads[s].channel, LLMRaises).llm_called
             THEN {LLMRaises}
             ELSE Answers({AIMessage(a, <<>>) : a \in SessionAnswers}) :
          SessionFinish(s, generate_final_answer_node(threads[s].channel, response), "END")

NextSessions ==
    \/ \E s \in Sessions, question \in SessionQuestions : SessionRun(s, question)
    \/ \E s \in Sessions : SessionListTables(s)
    \/ \E s \in Sessions : SessionSelectTables(s)
    \/ \E s \in Sessions : SessionSchemaFetch(s)
    \/ \E s \in Sessions : SessionGenerateQuery(s)
    \/ \E s \in Sessions : SessionCheckQuery(s)
    \/ \E s \in Sessions : SessionRunTools(s)
    \/ \E s \in Sessions : SessionValidateAnswer(s)
    \/ \E s \in Sessions : SessionGenerateFinalAnswer(s)

SpecSessions == Init /\ [][NextSessions]_vars

(***************************************************************************)
(* Properties of the workflow                                              *)
(***************************************************************************)

\* the feedback entries the validator's RETRY verdicts left in the messages
validator_feedback_count ==
    Cardinality({i \in 1..Len(messages) :
                    messages[i].type = "human"
                    /\ startswith(messages[i].content, "Validator Feedback:")})

\* C1: in one run at most 3 RETRY verdicts of the validator become feedback
\* entries that send the workflow back to generate_query: the 4th RETRY verdict
\* gives the "Maximum retries reached" message instead.
C1_RetryCap == validator_feedback_count <= RETRY_CEILING

\* C2: every run ends within the step ceiling: the step count never passes
\* recursion_limit, every step of a run either ends it or raises the step count
\* by one (so recursion_limit - step is a variant of the run), and a run that is
\* over has returned to its caller.
C2_RunTerminates ==
    /\ [](step <= recursion_limit /\ (pc = "done" => ~propagated))
    /\ [][Running => (pc' = "done" \/ step' = step + 1)]_vars

\* a run that the ceiling ended, after more returns to generate_query than the retry cap allows
C2_Witness ==
    /\ pc = "done"
    /\ raised = GraphRecursionError
    /\ step = recursion_limit
    /\ loops > RETRY_CEILING

\* C3: run lets no exception through: when a node, an LLM call, a tool or the
\* step ceiling raises, run is over and has returned the error text of that
\* exception.
C3_RunNeverRaises ==
    /\ ~propagated
    /\ raised # NoExc => pc = "done" /\ result = error_text(raised)

\* a run in which a tool raised and run returned the error text
C3_Witness ==
    /\ pc = "done"
    /\ raised = ToolFailure
    /\ result = error_text(ToolFailure)

\* the graph reached END in this run
AtEnd == pc = "done" /\ raised = NoExc

\* C4: no run reaches END unless run_tools dispatched sql_db_query at least once.
C4_ExecBeforeEnd ==
    AtEnd => \E i \in 1..Len(dispatched) : dispatched[i].name = "sql_db_query"

\* the proposal run_tools has just dispatched: the last AIMessage
last_ai(state) ==
    state[CHOOSE i \in 1..Len(state) :
              state[i].type = "ai" /\ \A j \in (i + 1)..Len(state) : state[j].type # "ai"]

\* validate_answer is about to run on what run_tools did
AboutToValidate == pc = "validate_answer" /\ step < recursion_limit

\* C5: after run_tools dispatched a proposal whose invoked tool is a helper
\* tool, validate_answer appends the forcing feedback, does not call the LLM
\* validator, and generate_query is next.
C5_HelperForcesQuery ==
    [][(AboutToValidate /\ last_ai(messages).tool_calls[1].name \in HELPER_TOOLS)
        => /\ messages' = Append(messages,
                  HumanMessage(helper_feedback(last_ai(messages).tool_calls[1].name)))
           /\ validator_calls' = validator_calls
           /\ pc' = "generate_query"]_vars

\* a statement that begins with a writing verb
is_write(query) ==
    \E kw \in {"INSERT", "UPDATE", "DELETE"} : startswith(upper(strip(query)), kw)

\* C6: no statement run_tools hands to sql_db_query begins with INSERT, UPDATE or DELETE.
C6_ReadOnly ==
    \A i \in 1..Len(dispatched) :
        dispatched[i].name = "sql_db_query" => ~is_write(get(dispatched[i].args, "query", ""))

\* a proposal without tool call whose text begins with a SQL verb
is_raw_sql(msg) ==
    /\ msg.type = "ai"
    /\ msg.tool_calls = <<>>
    /\ \E kw \in SQL_VERBS : startswith(upper(strip(msg.content)), kw)

\* C7: a raw SQL text of generate_query is never the end of the run: it is
\* turned into a sql_db_query call that run_tools dispatches.
C7_RawSqlRepaired ==
    [][(pc = "generate_query" /\ step' = step + 1 /\ is_raw_sql(Last(messages')))
        => /\ pc' = "check_query"
           /\ check_query_node(messages', "9f3a1c07").messages # <<>>]_vars

\* the statement has a LIMIT clause: the word LIMIT, in any case
has_row_cap(query) ==
    contains(" " \o upper(query) \o " ", " LIMIT ")

\* C8: check_query on a proposal whose first tool call is sql_db_query: without
\* row cap it appends a proposal with the same id and the statement followed by
\* " LIMIT 10"; with a row cap it appends nothing.
C8_RowCap ==
    [][(pc = "check_query" /\ step < recursion_limit
        /\ Last(messages).tool_calls[1].name = "sql_db_query")
        => LET call == Last(messages).tool_calls[1]
               query == get(call.args, "query", "")
           IN  IF has_row_cap(query)
               THEN messages' = messages
               ELSE messages' = Append(messages,
                        AIMessage("", <<ToolCall(call.id, "sql_db_query",
                                          [query |-> query \o " LIMIT 10"])>>))]_vars

\* run_tools has just produced a sql_db_query result with a binary marker
binary_result_pending ==
    /\ AboutToValidate
    /\ \E i \in 1..Len(messages) :
          /\ messages[i].type = "tool"
          /\ messages[i].name = "sql_db_query"
          /\ has_binary(messages[i].content)
          /\ \A j \in i..Len(messages) : messages[j].type = "tool"

\* C9: when the latest sql_db_query result holds a binary marker, validate_answer
\* appends the binary feedback, does not call the LLM validator, and
\* generate_query is next.
C9_BinaryFeedback ==
    [][binary_result_pending
        => /\ messages' = Append(messages, HumanMessage(binary_feedback))
           /\ validator_calls' = validator_calls
           /\ pc' = "generate_query"]_vars

\* a request was answered
answered == n_calls > 0

\* there is a path between a and b in graph
RECURSIVE reachable_from(_, _)
reachable_from(g, seen) ==
    LET more == seen \cup UNION {neighbors(g, t) : t \in seen} IN
    IF more = seen THEN seen ELSE reachable_from(g, more)

\* the tables of the list are nodes of the graph, each reachable from each
\* (the graph is undirected: each is reachable from the first)
connected_request(g, names) ==
    /\ Len(names) >= 2
    /\ \A i \in 1..Len(names) : names[i] \in g.nodes
    /\ LET joined == reachable_from(g, {names[1]})
       IN  \A i \in 1..Len(names) : names[i] \in joined

\* the anchor of a request
anchor_of(names) ==
    IF \E i \in 1..Len(names) : names[i] = "patient" THEN "patient" ELSE names[1]

missing_tables == Range(table_names) \ graph.nodes

\* C11: when a request of at least 2 tables names a table that is no node of the
\* graph, find_connection_query returns the "Cannot connect" error, the error
\* names every missing table, and the text holds no JOIN line, also when two or
\* more of the other tables are known and connected.
C11_UnknownTableFails ==
    (answered /\ Len(table_names) >= 2 /\ missing_tables # {})
        => /\ startswith(connection, "Cannot connect. Tables not found in graph: ")
           /\ \A t \in missing_tables : contains(connection, "'" \o t \o "'")
           /\ ~contains(connection, "JOIN ")

\* the known tables of the request, in order
known_tables == SelectSeq(table_names, LAMBDA t : t \in graph.nodes)

\* the known tables of the request that no path joins to the anchor
unreachable_tables ==
    IF Len(known_tables) < 2 THEN {}
    ELSE {t \in Range(known_tables) :
             t \notin reachable_from(graph, {anchor_of(known_tables)})}

\* C12: when a known table of the request has no path from the anchor,
\* find_connection_query returns an error that names each unreachable table,
\* and the text holds no JOIN line.
C12_DisconnectedNamed ==
    (answered /\ unreachable_tables # {})
        => /\ \A t \in unreachable_tables : contains(connection, t)
           /\ ~contains(connection, "JOIN ")

C14_ToolsNeverRaise == tool_call.name # "" => ~tool_return.raised

\* C15: whatever the interleaving of the runs of distinct sessions, the
\* history a run works on and the history checkpointed for its session hold
\* the entries the runs of that session appended, in order, and nothing else;
\* nothing is kept under a thread id no session has.
C15_SessionsIsolated ==
    /\ \A s \in Sessions : threads[s].channel = threads[s].own /\ storage[s] = threads[s].own
    /\ \A id \in ThreadIds \ Sessions : storage[id] = <<>>

\* two sessions are in the middle of their runs at once, each with entries of its own
C15_Witness ==
    /\ \A s \in Sessions : threads[s].pc \notin {"idle", "done"} /\ Len(storage[s]) >= 3
    /\ storage["alice"] # storage["bob"]

\* the node about to run scans the history for the user's question
selects_question ==
    \/ pc = "validate_answer" /\ validate_answer_node(messages, LLMRaises).llm_called
    \/ pc = "generate_final_answer"

\* the position of the entry the backward scan stops at
selected_position(state) ==
    CHOOSE i \in question_positions(state) : \A j \in question_positions(state) : j <= i

\* C16: when validate_answer or generate_final_answer selects an entry as the
\* user's question, it is the entry run appended for the question of the turn
\* (the first of the history here), never an entry a node injected.
C16_GenuineQuestion ==
    selects_question /\ question_positions(messages) # {} => selected_position(messages) = 1

\* the assistant entries of the turn without tool call and without the marker
answer_positions(state) ==
    {i \in 1..Len(state) :
        /\ state[i].type = "ai"
        /\ state[i].tool_calls = <<>>
        /\ ~contains(state[i].content, "STATUS:")}

\* the text of the last of them
last_answer(state) ==
    state[CHOOSE i \in answer_positions(state) : \A j \in answer_positions(state) : j <= i].content

\* the texts of the replies of the validator that validate_answer appended
verdict_entries(state) ==
    {state[i].content : i \in {j \in 2..Len(state) :
        /\ state[j].type = "ai"
        /\ state[j].content \in Verdicts
        /\ state[j - 1].type = "tool"}}

\* C17: when a turn completes without failure, run returns the text of the
\* last assistant entry of the turn that carries no tool call and no "STATUS:"
\* marker, and what it returns is never a reply of the validator.
C17_AnswerReturned ==
    pc = "done" /\ raised = NoExc /\ answer_positions(messages) # {} =>
        /\ result = last_answer(messages)
        /\ result \notin verdict_entries(messages)

\* the entries of the history that carry feedback: those validate_answer
\* counts, and the feedback entries it appends on a RETRY of the validator
feedback_entries(state) ==
    Cardinality({i \in 1..Len(state) :
        /\ state[i].type = "human"
        /\ \/ contains(state[i].content, "FEEDBACK")
           \/ startswith(state[i].content, "Validator Feedback:")})

\* this step is validate_answer, and the validator it asked answered RETRY
validator_says_retry ==
    /\ pc = "validate_answer"
    /\ validator_calls' = validator_calls + 1
    /\ ~habit'.v.raises
    /\ contains(habit'.v.message.content, "STATUS: RETRY")

\* C18: when the validator answers RETRY and the history holds 3 or more
\* feedback entries, validate_answer appends the "Maximum retries reached"
\* message alone and the workflow goes to generate_final_answer; below 3 it
\* appends the parsed feedback and the workflow goes back to generate_query.
C18_RetryAtCeiling ==
    [][validator_says_retry =>
          IF feedback_entries(messages) >= RETRY_CEILING
          THEN /\ messages' = Append(messages, AIMessage(max_retries_text, <<>>))
               /\ pc' = "generate_final_answer"
          ELSE /\ messages' = Append(messages, HumanMessage("Validator Feedback: "
                      \o strip(split_last(habit'.v.message.content, "FEEDBACK:"))))
               /\ pc' = "generate_query"]_vars

\* C19: once the history holds 3 entries with feedback, by the count of
\* validate_answer itself, no step of validate_answer sends the workflow back
\* to generate_query.
C19_NoLoopAtCeiling ==
    [][pc = "validate_answer" /\ retry_count(messages) >= RETRY_CEILING
          => pc' # "generate_query"]_vars

\* the place of each step in the order of a turn
rank(node) ==
    CASE node = "idle" -> 0
      [] node = "list_tables" -> 1
      [] node = "call_get_schema" -> 2
      [] node = "get_schema" -> 3
      [] node = "generate_query" -> 4
      [] node = "check_query" -> 5
      [] node = "run_tools" -> 6
      [] node = "validate_answer" -> 7
      [] node = "generate_final_answer" -> 8
      [] node = "done" -> 9

\* the step from node `from` to node `to`, leaving the history `state`, is an edge of a turn
follows(from, to, state) ==
    CASE from = "idle" -> to = "list_tables"
      [] from = "list_tables" -> to = "call_get_schema"
      [] from = "call_get_schema" -> to = "get_schema"
      [] from = "get_schema" -> to = "generate_query"
      [] from = "generate_query" ->
            to = (IF Last(state).tool_calls = <<>> THEN "done" ELSE "check_query")
      [] from = "check_query" -> to = "run_tools"
      [] from = "run_tools" -> to = "validate_answer"
      [] from = "validate_answer" -> to \in {"generate_query", "generate_final_answer"}
      [] from = "generate_final_answer" -> to = "done"
      [] from = "done" -> FALSE

\* C20: a turn walks list_tables, call_get_schema, get_schema, generate_query;
\* after generate_query it ends when the proposal has no tool call and else
\* runs check_query, run_tools, validate_answer; validate_answer is followed
\* by generate_query or generate_final_answer, generate_final_answer by the
\* end. A step that fails ends the turn. The only step back in the order is
\* the one from validate_answer to generate_query.
C20_StepOrder ==
    [][pc' # pc =>
          /\ \/ follows(pc, pc', messages')
             \/ pc' = "done" /\ raised' # NoExc
          /\ \/ rank(pc') > rank(pc)
             \/ pc = "validate_answer" /\ pc' = "generate_query"]_vars

\* a turn went back from validate_answer to generate_query and is about to
\* write its final answer
C20_Witness == pc = "generate_final_answer" /\ loops >= 1 /\ dispatched # <<>>

\* this step is validate_answer, and the validator it asked answered without "STATUS: RETRY"
validator_passes ==
    /\ pc = "validate_answer"
    /\ validator_calls' = validator_calls + 1
    /\ ~habit'.v.raises
    /\ ~contains(habit'.v.message.content, "STATUS: RETRY")

\* C21: when the reply of the validator holds neither "STATUS: RETRY" nor
\* "STATUS: VALID", validate_answer appends the reply unchanged and nothing
\* else, and the next step is generate_final_answer; a reply with
\* "STATUS: VALID" takes the same transition.
C21_AmbiguousPasses ==
    [][validator_passes =>
          /\ messages' = Append(messages, habit'.v.message)
          /\ pc' = "generate_final_answer"]_vars

\* the validator replied without either marker and the final answer is next
C21_Witness ==
    /\ pc = "generate_final_answer"
    /\ Last(messages).type = "ai"
    /\ Last(messages).content = "The result looks readable."

\* a is the beginning of b
is_prefix(a, b) == Len(a) <= Len(b) /\ SubSeq(b, 1, Len(a)) = a

\* C22: every step of a run keeps the entries of the history as they are and
\* in their order and only adds entries at the end; when check_query rewrites
\* a proposal, the rewritten proposal is added after the original one.
C22_AppendOnly ==
    [][/\ is_prefix(messages, messages')
       /\ pc = "check_query" /\ pc' = "run_tools" /\ messages' # messages =>
             /\ Len(messages') = Len(messages) + 1
             /\ messages'[Len(messages)] = Last(messages)
             /\ Last(messages').type = "ai"]_vars

\* check_query added the row cap to a proposal: the original and the capped
\* proposal are the last two entries
C22_Witness ==
    /\ pc = "run_tools"
    /\ Len(messages) >= 2
    /\ Last2(messages).type = "ai" /\ Last2(messages).tool_calls # <<>>
    /\ Last2(messages).tool_calls[1].args = [query |-> "SELECT name FROM patient"]
    /\ Last(messages).tool_calls # <<>>
    /\ Last(messages).tool_calls[1].args = [query |-> "SELECT name FROM patient LIMIT 10"]

\* run_tools is about to run on a proposal with two or more tool calls
batch_pending ==
    /\ pc = "run_tools"
    /\ Last(messages).type = "ai"
    /\ Len(Last(messages).tool_calls) >= 2

\* C23: on a proposal with two or more tool calls run_tools resolves at most
\* one call in its step, and validate_answer, which classifies the step by
\* the first call of the batch, does not fail on it.
C23_BatchOneAtATime ==
    [][/\ batch_pending /\ pc' = "validate_answer" => Len(messages') <= Len(messages) + 1
       /\ pc = "validate_answer" => raised' # AttributeErrorToolCalls]_vars

\* the requested tables that are nodes of the graph, in the order of the request
valid_request == SelectSeq(table_names, LAMBDA t : t \in graph.nodes)

\* the JOIN lines of the text returned
join_lines == Range(Tail(split(connection, "\n")))

\* the JOIN lines of the paths between a and b whose summed weight no path between a and b undercuts
least_weight_joins(g, a, b) ==
    LET all == simple_paths(g, <<a>>, b)
        least == {p \in all : \A q \in all : path_weight(g, p) <= path_weight(g, q)}
    IN  UNION {joins_of(g, p) : p \in least}

\* C24: every JOIN line of a text find_connection_query returns is an edge of a
\* path from the anchor to a requested table whose summed weight is least
\* among the paths between the two; so an edge of weight 10 is taken only
\* where no path of smaller total weight exists.
C24_LeastWeightJoins ==
    answered /\ startswith(connection, "FROM ") /\ Len(valid_request) >= 2 =>
        \A line \in join_lines \ {""} :
            \E target \in Range(valid_request) \ {anchor_of(valid_request)} :
                line \in least_weight_joins(graph, anchor_of(valid_request), target)

\* user and organization are joined by a foreign key of weight 10: the text for
\* patient and organization goes the three edges of weight 1 through lob
C24_Witness ==
    /\ table_names = <<"patient", "organization">>
    /\ \E e \in graph.edges : e.ends = {"user", "organization"} /\ e.weight = 10
    /\ contains(connection, "JOIN lob ON ")
    /\ contains(connection, "JOIN organization ON lob.org_guid = organization.org_guid")
    /\ ~contains(connection, "JOIN user ON ")

\* the two tables of a manual edge
manual_pairs == {{manual_edges[i][1], manual_edges[i][2]} : i \in 1..Len(manual_edges)}

\* the weight the authors gave the manual edge between the tables `ends`
authored_weight(ends) ==
    LET i == CHOOSE k \in 1..Len(manual_edges) :
                 {manual_edges[k][1], manual_edges[k][2]} = ends
    IN  manual_edges[i][4]

\* C25: once the graph is built from foreign keys and the manual edges, every
\* edge has weight at least 1, every manual edge is there with its authored
\* weight, and every other edge, which comes from a foreign key, has weight 10
\* when the name of one of its tables contains "user" and weight 1 otherwise.
C25_EdgeWeights ==
    build.pc = "done" /\ ~build.raises =>
        /\ \A e \in graph.edges : e.weight >= 1
        /\ \A ends \in manual_pairs :
              \E e \in graph.edges : e.ends = ends /\ e.weight = authored_weight(ends)
        /\ \A e \in graph.edges : e.ends \notin manual_pairs =>
              e.weight = (IF \E t \in e.ends : contains(t, "user") THEN 10 ELSE 1)

\* a graph built from a foreign key of a user table and a foreign key of other tables
C25_Witness ==
    /\ build.pc = "done"
    /\ \E e \in graph.edges : e.ends = {"user", "organization"} /\ e.weight = 10
    /\ \E e \in graph.edges : e.ends = {"claim", "payer"} /\ e.weight = 1
    /\ \E e \in graph.edges : e.ends = {"patient", "user"} /\ e.weight = 10

\* the edge given to the last add_edge call for the tables `ends`
last_added(ends) ==
    LET at == {i \in 1..Len(build.added) : build.added[i].ends = ends}
    IN  build.added[CHOOSE i \in at : \A j \in at : j <= i]

\* C26: the graph holds at most one edge for each pair of tables, whatever the
\* direction of the foreign keys; its join condition and weight are those of
\* the last add_edge call for the pair; and no manual edge is added while a
\* row of the foreign-key query is still to come.
C26_OneEdgePerPair ==
    /\ \A e1, e2 \in graph.edges : e1.ends = e2.ends => e1 = e2
    /\ {e.ends : e \in graph.edges} = {build.added[i].ends : i \in 1..Len(build.added)}
    /\ \A e \in graph.edges : e = last_added(e.ends)
    /\ build.todo # manual_edges => build.results = <<>>

\* two foreign keys between claim and payer, one in each direction: the
\* built graph joins them on the second
C26_Witness ==
    /\ build.pc = "done"
    /\ Len(build.added) = Len(manual_edges) + 2
    /\ build.added[1].on = "claim.payer_id = payer.payer_id"
    /\ build.added[2].on = "payer.last_claim_id = claim.claim_id"
    /\ \E e \in graph.edges : e.ends = {"claim", "payer"} /\ e.on = build.added[2].on

\* C27: no call of find_connection_query changes the graph, its nodes, edges,
\* join conditions or weights, whatever the list: unknown tables, fewer than
\* 2 tables, disconnected tables.
C27_GraphUnchanged == [][graph' = graph]_vars

\* a request of two tables, one of them no node of the graph, was answered twice
C27_Witness ==
    /\ n_calls = 2
    /\ graph.nodes # {}
    /\ Len(table_names) = 2
    /\ missing_tables # {}

\* C28: a run for a session whose earlier turn is over starts at list_tables
\* on the history that turn left, whole and in order, followed by the new
\* question.
C28_TurnResumesHistory ==
    [][\A s \in Sessions :
          threads[s].pc = "done" /\ threads'[s].pc # "done" =>
              /\ threads'[s].pc = "list_tables"
              /\ \E question \in SessionQuestions :
                    threads'[s].channel = Append(threads[s].channel, HumanMessage(question))
              /\ storage'[s] = threads'[s].channel]_vars

\* the second turn of a session starts on the history of a first turn that ran a query
C28_Witness ==
    \E s \in Sessions :
        /\ threads[s].pc = "list_tables"
        /\ threads[s].turn_start >= 6
        /\ \E i \in 1..(threads[s].turn_start - 1) : threads[s].channel[i].type = "tool"

\* C29: the proposal call_get_schema leaves for get_schema carries at least
\* one tool call, each of the relevant-tables search or the schema lookup;
\* it is never a free-text answer.
C29_SelectTablesCallsTool ==
    pc = "get_schema" =>
        /\ Last(messages).type = "ai"
        /\ Last(messages).tool_calls # <<>>
        /\ \A i \in 1..Len(Last(messages).tool_calls) :
              Last(messages).tool_calls[i].name
                  \in {"sql_db_find_relevant_tables", "sql_db_schema"}

\* C30: the chat endpoint answers 503 when the agent is not loaded; when it is
\* loaded, a request with a query leads to one call of run with the query and
\* the session identifier of the request, and the response is 200 with what
\* run returned.
C30_ChatAnswers ==
    \A i \in 1..Len(http.exchanges) :
        LET x == http.exchanges[i] IN
        IF ~http.agent_loaded THEN x.response.status = 503
        ELSE /\ x.response.status = 200
             /\ x.response.text = x.run_result
             /\ x.response.run_calls = << <<x.body.query, x.body.session_id>> >>

\* C31: every feedback entry validate_answer appends is counted by the retry
\* counter: each return from validate_answer to generate_query raises the
\* count the ceiling is compared with by exactly one.
C31_FeedbackCounted ==
    [][pc = "validate_answer" /\ pc' = "generate_query"
       => retry_count(messages') = retry_count(messages) + 1]_vars

\* the entries of the current turn of session s that follow its question
turn_entries(s) ==
    SubSeq(threads[s].channel, threads[s].turn_start + 1, Len(threads[s].channel))

\* C32: the retry ceiling is per user turn: when validate_answer runs, the
\* count it compares with the ceiling is the count of the feedback entries
\* appended during the current turn; entries of earlier turns of the session
\* and the text of a question add nothing to it.
C32_CeilingPerTurn ==
    \A s \in Sessions :
        At(s, "validate_answer")
        => retry_count(threads[s].channel) = retry_count(turn_entries(s))

\* C33: the SQL result generate_final_answer hands to the answer synthesis
\* comes from a sql_db_query dispatch of the current turn, and is the default
\* "No data found." when the current turn dispatched none; it is never a
\* result an earlier turn left in the history of the session.
C33_ResultOfThisTurn ==
    \A s \in Sessions :
        At(s, "generate_final_answer")
        => sql_result_of(threads[s].channel) = sql_result_of(turn_entries(s))

\* C34: every sql_db_query statement run_tools dispatches holds a row cap,
\* wherever its call stands in the batch of the proposal.
C34_EveryDispatchCapped ==
    \A i \in 1..Len(dispatched) :
        dispatched[i].name = "sql_db_query"
        => has_row_cap(get(dispatched[i].args, "query", ""))

\* the JOIN lines of the text returned, in the order of the text
join_sequence == SelectSeq(Tail(split(connection, "\n")), LAMBDA line : line # "")

\* "JOIN <target> ON <left>.<column> = <right>.<column>": the table a line joins
join_target(line) == split(line, " ")[2]

\* the tables the condition of a line names
join_condition_tables(line) ==
    {Head(split(split(line, " ")[4], ".")), Head(split(split(line, " ")[6], "."))}

\* the tables a FROM clause holds after its first n JOIN lines
introduced(n) ==
    {anchor_of(valid_request)} \cup {join_target(join_sequence[j]) : j \in 1..n}

\* C35: in a text find_connection_query returns, the condition of each JOIN
\* line names only the anchor, the table the line joins and tables joined by
\* earlier lines, so the clause can be used as written.
C35_JoinsInUsableOrder ==
    answered /\ startswith(connection, "FROM ") /\ Len(valid_request) >= 2 =>
        \A i \in 1..Len(join_sequence) :
            join_condition_tables(join_sequence[i]) \subseteq introduced(i)

\* C36: in a text find_connection_query returns, every requested table of the
\* graph other than the anchor is joined by a JOIN line, the anchor by none,
\* and no table is joined by two lines with different conditions, whichever
\* least-weight path the search picks for each target.
C36_OneJoinPerTable ==
    answered /\ startswith(connection, "FROM ") /\ Len(valid_request) >= 2 =>
        LET targets == {join_target(join_sequence[i]) : i \in 1..Len(join_sequence)} IN
        /\ Range(valid_request) \ {anchor_of(valid_request)} \subseteq targets
        /\ anchor_of(valid_request) \notin targets
        /\ \A i, j \in 1..Len(join_sequence) :
              join_target(join_sequence[i]) = join_target(join_sequence[j]) => i = j

\* the request names the two tables of a manual edge
asks_manual_pair ==
    Len(table_names) = 2 /\ table_names[1] # table_names[2]
    /\ Range(table_names) \in manual_pairs

\* C37: the graph holds the manual edges after construction whether or not the
\* foreign-key query succeeded, so a request for two manually linked tables
\* is answered with their join.
C37_ManualEdgesAlways ==
    /\ \A ends \in manual_pairs : \E e \in graph.edges : e.ends = ends
    /\ answered /\ asks_manual_pair => startswith(connection, "FROM ")

\* C38: generate_final_answer completes on every history it is entered with:
\* when no entry qualifies as the user's question it goes on with a placeholder
\* question, so the step never ends the turn with an error of its own, and
\* when the LLM answers, the answer is appended.
C38_FinalAnswerCompletes ==
    [][pc = "generate_final_answer" /\ step < recursion_limit
       => \/ raised' = LLMFailure
          \/ /\ raised' = NoExc
             /\ Len(messages') = Len(messages) + 1
             /\ Last(messages').type = "ai"]_vars

====
